---- MODULE Spec2Model ----
(***************************************************************************)
(* A model of lambda-local (src/src/lambdalocal.ts): execute, _executeSync, *)
(* updateEnv and the watch-mode HTTP front end.                            *)
(*                                                                         *)
(* JavaScript runs one callback to completion before the next one starts.  *)
(* The variable cur names the invocation whose synchronous code is running *)
(* (0 when the event loop is idle); timers, promise reactions and request  *)
(* events only run when cur = 0.                                           *)
(*                                                                         *)
(* Strings that the program takes apart or tests for emptiness (paths,     *)
(* export names, environment values) are sequences of tokens: << >> is the *)
(* empty string.  Values the program only passes along or tests for        *)
(* truthiness (payloads, errors) are atoms, see Truthy.                    *)
(***************************************************************************)
EXTENDS Integers, Sequences, FiniteSets, TLC

VARIABLES
    mode,      \* which part of the program the run drives: "engine", "env", "watch",
               \* "conc"
    env,       \* process.env: a function from the keys present to their values
    cur,       \* the invocation whose synchronous code is running, 0 when idle
    inv,       \* per invocation: its options, position, context, outcome
    crashed,   \* an exception reached the top of the event loop (process exit)
    runs,      \* calls of execute made so far
    mods       \* the handler files on disk and require.cache

vars == <<mode, env, cur, inv, crashed, runs, mods>>

(***************************************************************************)
(* Bounds                                                                  *)
(***************************************************************************)
\* invocation slots of a run of the "env" and "watch" parts
NumInv == 2
\* explicit completion calls (done/succeed/fail) one handler run may make
MaxCalls == 2
\* edits of a handler file during a run
MaxEdits == 1

Inv == 1..NumInv

(***************************************************************************)
(* JavaScript values                                                       *)
(***************************************************************************)
Falsy == {"undefined", "null", "0", "false", ""}

\* if (x), x || y, !x
Truthy(v) == v \notin Falsy

\* opts.timeoutMs || 3000 : the number 0 stands for 0 and for an absent option
DefaultTimeoutMs == 3000

TimeoutOf(ms) == IF ms # 0 THEN ms ELSE DefaultTimeoutMs

(***************************************************************************)
(* Token strings and paths                                                 *)
(***************************************************************************)
RECURSIVE LastIndexOf(_, _)
\* the largest index of token t in s, 0 when there is none
LastIndexOf(s, t) ==
    IF s = << >> THEN 0
    ELSE IF s[Len(s)] = t THEN Len(s)
    ELSE LastIndexOf(SubSeq(s, 1, Len(s) - 1), t)

\* path.dirname of an absolute or relative path without trailing separators
Dirname(p) ==
    LET k == LastIndexOf(p, "/")
    IN  IF k = 0 THEN <<".">>
        ELSE IF k = 1 THEN <<"/">>
        ELSE SubSeq(p, 1, k - 1)

\* path.basename(p) : what follows the last separator
BasenameFull(p) == SubSeq(p, LastIndexOf(p, "/") + 1, Len(p))

\* path.extname(p) : from the last dot of the basename, "" when there is no
\* dot or the only dot starts the basename
Extname(p) ==
    LET b == BasenameFull(p)
        k == LastIndexOf(b, ".")
    IN  IF k <= 1 THEN << >> ELSE SubSeq(b, k, Len(b))

\* s ends with suffix x
EndsWith(s, x) ==
    /\ Len(x) <= Len(s)
    /\ SubSeq(s, Len(s) - Len(x) + 1, Len(s)) = x

\* path.basename(p, ext) : the basename with a trailing ext removed, unless
\* the basename is exactly ext
Basename(p, ext) ==
    LET b == BasenameFull(p)
    IN  IF ext # << >> /\ b # ext /\ EndsWith(b, ext)
        THEN SubSeq(b, 1, Len(b) - Len(ext))
        ELSE b

\* process.cwd()
Cwd == <<"/", "w">>

\* utils.getAbsolutePath : an absolute path is kept, a relative one is
\* resolved against the working directory
getAbsolutePath(p) ==
    IF p # << >> /\ p[1] = "/" THEN p ELSE Cwd \o <<"/">> \o p

(***************************************************************************)
(* The file system and the modules a handler is taken from                 *)
(***************************************************************************)
\* a handler file with an extension, an absolute path
PathFoo == <<"/", "a", "/", "b", "/", "foo", ".", "js">>
\* a relative path whose file name has two dots
PathMin == <<"bar", ".", "min", ".", "js">>
\* a path no file is at
PathGone == <<"/", "a", "/", "gone", ".", "js">>

NoPath == << >>
NoName == << >>

\* the export name used when opts.lambdaHandler is absent
DefaultHandler == <<"handler">>

\* the callable exports of the module at an absolute path; {} where
\* require() finds no module
FileExports(p) ==
    IF p = PathFoo THEN {DefaultHandler, <<"m">>}
    ELSE IF p = Cwd \o <<"/">> \o PathMin THEN {DefaultHandler, <<"m">>}
    ELSE {}

FileExists(p) == p \in {PathFoo, Cwd \o <<"/">> \o PathMin}

\* the files a module can be loaded from
Files == {PathFoo, Cwd \o <<"/">> \o PathMin}

\* the files as first written, and an empty require.cache.  A file has a
\* version, which an edit raises; a module instance has the version of
\* the file it was loaded from and its module-level state, here the
\* number of calls of its handler.
NoMods == [ver |-> [p \in Files |-> 0],
           cache |-> [p \in {} |-> [ver |-> 0, uses |-> 0]]]

\* the cache entry left where it is
DeleteCacheKeep(m, p) == m

\* delete require.cache[require.resolve(lambdaPath)]
DeleteCache(m, p) ==
    [m EXCEPT !.cache = [x \in DOMAIN m.cache \ {p} |-> m.cache[x]]]

\* require(lambdaPath): the cached instance when there is one, otherwise a
\* new instance of the file as it is now, which is cached
Require(m, p) ==
    IF p \in DOMAIN m.cache THEN m
    ELSE [m EXCEPT !.cache =
            [x \in DOMAIN m.cache \cup {p} |->
                IF x = p THEN [ver |-> m.ver[p], uses |-> 0]
                ELSE m.cache[x]]]

\* the handler of the instance at p runs: it reads and writes the
\* module-level state
UseModule(m, p) == [m EXCEPT !.cache[p].uses = @ + 1]

\* the callable exports of an in-memory handler object (opts.lambdaFunc)
FuncExports(f) == IF f = "module" THEN {DefaultHandler, <<"m">>} ELSE {}

(***************************************************************************)
(* process.env                                                             *)
(***************************************************************************)
K_HANDLER == "_HANDLER"
K_NAME == "AWS_LAMBDA_FUNCTION_NAME"
K_VERSION == "AWS_LAMBDA_FUNCTION_VERSION"
K_ROOT == "LAMBDA_TASK_ROOT"
K_REGION == "AWS_REGION"
K_DEFREGION == "AWS_DEFAULT_REGION"
K_CUSTOM == "MY_VAR"
K_CRED == "AWS_ACCESS_KEY_ID"

EmptyEnv == [k \in {} |-> << >>]

\* process.env[k] : the value, or undefined (absent) which reads as ""
\* wherever the program only tests it for truthiness
EnvGet(e, k) == IF k \in DOMAIN e THEN e[k] ELSE << >>

\* process.env[k] = v
EnvSet(e, k, v) == [x \in DOMAIN e \cup {k} |-> IF x = k THEN v ELSE e[x]]

\* delete process.env[k] for every k of ks
EnvDelete(e, ks) == [x \in DOMAIN e \ ks |-> e[x]]

\* Object.keys(m).forEach(key => process.env[key] = m[key])
EnvAssign(e, m) ==
    [x \in DOMAIN e \cup DOMAIN m |-> IF x \in DOMAIN m THEN m[x] ELSE e[x]]

\* a || b on strings: the empty string and an absent value are falsy
StrOr(a, b) == IF a # << >> THEN a ELSE b

\* updateEnv writing every key, whatever process.env holds
updateEnvAlways(e, defaults) ==
    [x \in DOMAIN e \cup DOMAIN defaults |->
        IF x \in DOMAIN defaults THEN defaults[x] ELSE e[x]]

\* updateEnv: a key is written only where process.env[key] is falsy, that
\* is absent or the empty string
updateEnv(e, defaults) ==
    [x \in DOMAIN e \cup DOMAIN defaults |->
        IF x \in DOMAIN defaults /\ EnvGet(e, x) = << >>
        THEN defaults[x]
        ELSE e[x]]

\* lambdaHandler = opts.lambdaHandler || 'handler'
HandlerName(o) == StrOr(o.lambdaHandler, DefaultHandler)

\* lambdaPath after utils.getAbsolutePath, "" when the option is absent
AbsLambdaPath(o) ==
    IF o.lambdaPath # NoPath THEN getAbsolutePath(o.lambdaPath) ELSE NoPath

\* the value computed for _HANDLER
HandlerId(lambdaPath, lambdaHandler) ==
    IF lambdaPath # NoPath
    THEN Basename(lambdaPath, Extname(lambdaPath)) \o <<".">> \o lambdaHandler
    ELSE <<"index", ".">> \o lambdaHandler

\* the value computed for LAMBDA_TASK_ROOT
TaskRoot(lambdaPath) == IF lambdaPath # NoPath THEN Dirname(lambdaPath) ELSE Cwd

\* the defaults handed to updateEnv.  Of the keys whose value depends on
\* the host alone (memory size, version, execution environment, sockets,
\* runtime directory, NODE_PATH, TZ) the model keeps the version.
envVars(o) ==
    (K_NAME :> HandlerName(o))
    @@ (K_VERSION :> <<"1.0">>)
    @@ (K_ROOT :> TaskRoot(AbsLambdaPath(o)))
    @@ (K_HANDLER :> HandlerId(AbsLambdaPath(o), HandlerName(o)))

StageDefaults(e, o) == updateEnv(e, envVars(o))

\* custom environment variables: always written
StageCustom(e, o) == EnvAssign(e, o.environment)

\* dotenv.config({path: envfile}) : a key of the file is written when the
\* environment does not have it
StageEnvfile(e, o) ==
    [x \in DOMAIN e \cup DOMAIN o.envfile |->
        IF x \in DOMAIN e THEN e[x] ELSE o.envfile[x]]

\* utils.loadAWSCredentials : the keys of the profile are staged as defaults
StageCredentials(e, o) ==
    [x \in DOMAIN e \cup DOMAIN o.profile |->
        IF x \in DOMAIN e THEN e[x] ELSE o.profile[x]]

UsEast1 == <<"us-east-1">>

\* process.env[k] = region || process.env[k] || 'us-east-1'
RegionValue(e, region, k) == StrOr(region, StrOr(EnvGet(e, k), UsEast1))

StageRegion(e, o) ==
    LET e1 == EnvSet(e, K_REGION, RegionValue(e, o.region, K_REGION))
    IN  EnvSet(e1, K_DEFREGION, RegionValue(e1, o.region, K_DEFREGION))

\* finalCallback deleting the custom keys whatever envdestroy is
finalCallbackAlways(e, o) ==
    IF DOMAIN o.environment # {} THEN EnvDelete(e, DOMAIN o.environment) ELSE e

\* finalCallback doing nothing
finalCallbackKeep(e, o) == e

\* finalCallback: the custom keys are deleted when envdestroy is set
finalCallback(e, o) ==
    IF DOMAIN o.environment # {} /\ o.envdestroy
    THEN EnvDelete(e, DOMAIN o.environment)
    ELSE e

(***************************************************************************)
(* One invocation                                                          *)
(***************************************************************************)
NoSig == [by |-> "none", err |-> "undefined", val |-> "undefined"]

NoOpts ==
    [callback |-> TRUE, lambdaFunc |-> "none", lambdaPath |-> NoPath,
     lambdaHandler |-> NoName, clientContext |-> "none", event |-> "value",
     timeoutMs |-> 0, region |-> << >>, environment |-> EmptyEnv,
     envdestroy |-> FALSE, envfile |-> EmptyEnv, profile |-> EmptyEnv]

NewInv ==
    [pc |-> "new",            \* position in execute / _executeSync
     src |-> "direct",        \* "direct": a call of execute, "http": a request
     o |-> NoOpts,            \* the options of the call
     envBefore |-> EmptyEnv,  \* process.env when execute was called
     steps |-> << >>,         \* the steps of _executeSync taken, in order
     state |-> "None",        \* the context: None, Pending, Completed
     kind |-> "none",         \* Completed as "success" or "failure"
     out |-> [err |-> "undefined", val |-> "undefined"],
     finals |-> 0,            \* runs of finalCallback
     timer |-> "none",        \* none, armed, cleared, fired
     timeoutMs |-> 0,         \* the context's budget
     cbLog |-> << >>,         \* calls of opts.callback, in order
     promise |-> "none",      \* the future of execute: none, pending, resolved, rejected
     pval |-> "undefined",    \* what the future settled with
     thrown |-> "none",       \* the exception that left execute
     nsig |-> 0,              \* completion signals so far
     first |-> NoSig,         \* the first completion signal
     hn |-> 0,                \* the handler's own completion calls so far
     hfirst |-> NoSig,        \* the first of them
     ret |-> "none",          \* what the handler returned, "threw" if it threw
     attached |-> FALSE,      \* result.then(ctx.succeed, ctx.fail) was called
     settled |-> FALSE,       \* the returned promise has settled
     loaded |-> FALSE,        \* require(lambdaPath) returned a module
     \* the module instance the handler is taken from: the version of the
     \* file when it was required, its own version, and the module-level
     \* state the handler found when called (-1: not yet)
     mod |-> [file |-> -1, ver |-> -1, seen |-> -1],
     event |-> "none",        \* the event handed to the handler
     req |-> [ct |-> "none", body |-> "none", ev |-> "undefined"],
     \* the response: its statusCode property, the calls of res.end, and
     \* the body and status that went out with the first of them
     res |-> [status |-> 200, ends |-> 0,
              sent |-> [tag |-> "unsent", v |-> "undefined"], code |-> 0],
     awaiting |-> FALSE]      \* the request's callback awaits execute

\* a pair: the invocation record r and process.env e
St(r, e) == [r |-> r, e |-> e]

\* a completion signal reaches the context
NoteSignal(r, by, err, val) ==
    [r EXCEPT !.nsig = @ + 1,
              !.first = IF @.by = "none"
                        THEN [by |-> by, err |-> err, val |-> val] ELSE @]

\* reject(e), resolve(v) of the future execute returned: a settled future
\* stays as it is
PromiseReject(r, e) ==
    IF r.promise = "pending"
    THEN [r EXCEPT !.promise = "rejected", !.pval = e] ELSE r

PromiseResolve(r, v) ==
    IF r.promise = "pending"
    THEN [r EXCEPT !.promise = "resolved", !.pval = v] ELSE r

\* ExecuteCallback with resolve() called without the value
ExecuteCallbackNoValue(r, err, val) ==
    PromiseResolve(IF Truthy(err) THEN PromiseReject(r, err) ELSE r,
                   "undefined")

\* the callback execute injects: if (_err) reject(_err); resolve(_done)
ExecuteCallback(r, err, val) ==
    PromiseResolve(IF Truthy(err) THEN PromiseReject(r, err) ELSE r, val)

\* context.callback(err, val): the caller's callback, or the injected one
InvokeCallback(r, err, val) ==
    LET r1 == [r EXCEPT !.cbLog = Append(@, [err |-> err, val |-> val])]
    IN  IF r.o.callback THEN r1 ELSE ExecuteCallback(r1, err, val)

\* Context: the guarded completion routine.  The first call completes the
\* context, clears the timer, runs finalCallback and calls the callback;
\* later calls do nothing.
ContextComplete(s, kind, err, val) ==
    IF s.r.state # "Pending" THEN s
    ELSE LET r1 == [s.r EXCEPT !.state = "Completed", !.kind = kind,
                               !.out = [err |-> err, val |-> val],
                               !.finals = @ + 1,
                               !.timer = IF @ = "armed" THEN "cleared" ELSE @]
         IN  St(InvokeCallback(r1, err, val), finalCallback(s.e, s.r.o))

\* Context.succeed(v), Context.fail(e), Context.done(e, v)
ContextSucceed(s, v) == ContextComplete(s, "success", "null", v)

ContextFail(s, e) == ContextComplete(s, "failure", e, "undefined")

ContextDone(s, e, v) ==
    ContextComplete(s, IF Truthy(e) THEN "failure" ELSE "success", e, v)

\* the handler calls ctx.succeed, ctx.fail, ctx.done or its third argument
ContextCall(s, sig) ==
    IF sig.op = "succeed" THEN ContextSucceed(s, sig.val)
    ELSE IF sig.op = "fail" THEN ContextFail(s, sig.err)
    ELSE ContextDone(s, sig.err, sig.val)

\* Context._init_timeout: arm the timer for the budget
ContextInitTimeout(r) == [r EXCEPT !.timer = "armed"]

\* the timer fires: the context fails with the timeout error
ContextTimeout(s) ==
    ContextFail(St([NoteSignal(s.r, "timer", "TimeoutError", "undefined")
                       EXCEPT !.timer = "fired"], s.e),
                "TimeoutError")

(***************************************************************************)
(* _executeSync, step by step                                              *)
(***************************************************************************)
\* typeof opts.clientContext === "string"
IsString(cc) == cc \in {"", "not json", "{}"}

\* JSON.parse(cc) returns
Parses(cc) == cc = "{}"

\* ValidationError without the check of the handler locator
ValidationErrorNoLocator(o) ==
    IF Truthy(o.clientContext) /\ IsString(o.clientContext)
       /\ ~Parses(o.clientContext)
    THEN "SyntaxError: clientContext"
    ELSE "none"

\* the checks made before anything else: the error thrown, or "none"
ValidationError(o) ==
    IF Truthy(o.clientContext) /\ IsString(o.clientContext)
       /\ ~Parses(o.clientContext)
    THEN "SyntaxError: clientContext"
    ELSE IF o.lambdaFunc # "none" /\ o.lambdaPath # NoPath
    THEN "SyntaxError: both"
    ELSE "none"

\* NextPc with the handler called right after the event is resolved: the
\* timeout is not armed
NextPcNoTimer(pc) ==
    CASE pc = "validate" -> "defaults"
      [] pc = "defaults" -> "custom"
      [] pc = "custom" -> "envfile"
      [] pc = "envfile" -> "creds"
      [] pc = "creds" -> "region"
      [] pc = "region" -> "context"
      [] pc = "context" -> "load"
      [] pc = "load" -> "event"
      [] pc = "event" -> "call"
      [] pc = "call" -> "inHandler"
      [] OTHER -> "async"

\* NextPc with the handler module loaded before the region is staged
NextPcLoadEarly(pc) ==
    CASE pc = "validate" -> "defaults"
      [] pc = "defaults" -> "custom"
      [] pc = "custom" -> "envfile"
      [] pc = "envfile" -> "creds"
      [] pc = "creds" -> "context"
      [] pc = "context" -> "load"
      [] pc = "load" -> "region"
      [] pc = "region" -> "event"
      [] pc = "event" -> "timer"
      [] pc = "timer" -> "call"
      [] pc = "call" -> "inHandler"
      [] OTHER -> "async"

\* the order of the steps of _executeSync after the checks
NextPc(pc) ==
    CASE pc = "validate" -> "defaults"
      [] pc = "defaults" -> "custom"
      [] pc = "custom" -> "envfile"
      [] pc = "envfile" -> "creds"
      [] pc = "creds" -> "region"
      [] pc = "region" -> "context"
      [] pc = "context" -> "load"
      [] pc = "load" -> "event"
      [] pc = "event" -> "timer"
      [] pc = "timer" -> "call"
      [] pc = "call" -> "inHandler"
      [] OTHER -> "async"

\* the step at pc is done: note it and move on
Advance(r) == [r EXCEPT !.steps = Append(@, r.pc), !.pc = NextPc(r.pc)]

\* RouteCatch with the error handed to the callback, not to the context
RouteCatchDirect(s, err) ==
    St(InvokeCallback(NoteSignal(s.r, "catch", err, "undefined"),
                      err, "undefined"), s.e)

\* catch(err) { ctx.fail(err) }
RouteCatch(s, err) ==
    ContextFail(St(NoteSignal(s.r, "catch", err, "undefined"), s.e), err)

\* RouteResult with a plain result handed to the callback, not to the
\* context
RouteResultDirect(s, result) ==
    IF ~Truthy(result) THEN s
    ELSE IF result = "promise" THEN St([s.r EXCEPT !.attached = TRUE], s.e)
    ELSE St(InvokeCallback(NoteSignal(s.r, "return", "null", "null"),
                           "null", "null"), s.e)

\* RouteResult with a plain result handed on as the payload
RouteResultPayload(s, result) ==
    IF ~Truthy(result) THEN s
    ELSE IF result = "promise" THEN St([s.r EXCEPT !.attached = TRUE], s.e)
    ELSE ContextSucceed(St(NoteSignal(s.r, "return", "null", result), s.e),
                        result)

\* if (result) { if (result.then) result.then(ctx.succeed, ctx.fail)
\*               else ctx.succeed(null) }
RouteResult(s, result) ==
    IF ~Truthy(result) THEN s
    ELSE IF result = "promise" THEN St([s.r EXCEPT !.attached = TRUE], s.e)
    ELSE ContextSucceed(St(NoteSignal(s.r, "return", "null", "null"), s.e),
                        "null")

\* the promise the handler returned settles: ctx.succeed(v) or ctx.fail(e)
RouteSettle(s, p) ==
    IF p.ok
    THEN ContextSucceed(St(NoteSignal(s.r, "promise", "null", p.v), s.e), p.v)
    ELSE ContextFail(St(NoteSignal(s.r, "promise", p.v, "undefined"), s.e), p.v)

\* the handler calls the completion function
HandlerSignal(s, sig) ==
    LET r1 == NoteSignal(s.r, "handler", sig.err, sig.val)
        r2 == [r1 EXCEPT !.hn = @ + 1,
                         !.hfirst = IF @.by = "none"
                                    THEN [by |-> sig.op, err |-> sig.err,
                                          val |-> sig.val]
                                    ELSE @]
    IN  ContextCall(St(r2, s.e), sig)

\* the exports of the handler object of the invocation
HandlerExports(o) ==
    IF o.lambdaFunc # "none" THEN FuncExports(o.lambdaFunc)
    ELSE FileExports(AbsLambdaPath(o))

\* require.resolve(lambdaPath) and require(lambdaPath) return
CanLoad(o) == o.lambdaPath # NoPath /\ FileExists(AbsLambdaPath(o))

(***************************************************************************)
(* Inputs                                                                  *)
(***************************************************************************)
\* calls of execute one after the other in a run of the "env" part
MaxRuns == 2

\* handler locators: in memory, by path, both, neither
Locators ==
    {[f |-> "module", p |-> NoPath], [f |-> "none", p |-> PathFoo],
     [f |-> "none", p |-> PathMin], [f |-> "none", p |-> PathGone],
     [f |-> "module", p |-> PathFoo], [f |-> "none", p |-> NoPath]}

OptsEngine ==
    {[NoOpts EXCEPT !.callback = cb, !.lambdaFunc = l.f, !.lambdaPath = l.p,
                    !.lambdaHandler = h, !.clientContext = cc, !.event = ev,
                    !.timeoutMs = ms] :
        cb \in BOOLEAN,
        l \in Locators \ {[f |-> "none", p |-> PathMin]},
        h \in {NoName, <<"x">>},
        cc \in {"undefined", "", "not json", "{}"},
        ev \in {"value", "producer", "throwing"},
        ms \in {0, 500}}

\* the custom environment with its destroy flag, and the files read
CustomEnvs ==
    {[en |-> EmptyEnv, ed |-> FALSE],
     [en |-> K_CUSTOM :> <<"a">>, ed |-> FALSE],
     [en |-> K_CUSTOM :> <<"a">>, ed |-> TRUE]}

EnvFiles ==
    {[ef |-> EmptyEnv, pf |-> EmptyEnv],
     [ef |-> K_CUSTOM :> <<"f">>, pf |-> K_CRED :> <<"key">>]}

OptsEnv ==
    {[NoOpts EXCEPT !.lambdaFunc = l.f, !.lambdaPath = l.p,
                    !.lambdaHandler = h, !.region = rg,
                    !.environment = c.en, !.envdestroy = c.ed,
                    !.envfile = fl.ef, !.profile = fl.pf] :
        l \in {x \in Locators : x.f = "none" <=> x.p \in {PathFoo, PathMin}},
        h \in {NoName, <<"m">>},
        rg \in {<< >>, <<"eu-west-1">>},
        c \in CustomEnvs,
        fl \in EnvFiles}

\* the options watch() was started with, and the event producer it adds
WatchOpts == [NoOpts EXCEPT !.callback = FALSE, !.lambdaFunc = "module",
                            !.event = "producer"]

\* calls in flight together: a handler file, a custom variable that the
\* calls set to different values, one without and one with teardown
OptsConc ==
    {[NoOpts EXCEPT !.lambdaPath = PathFoo,
                    !.environment = K_CUSTOM :> c.v, !.envdestroy = c.ed] :
        c \in {[v |-> <<"a">>, ed |-> FALSE], [v |-> <<"b">>, ed |-> TRUE]}}

OptsOf(m) ==
    IF m = "engine" THEN OptsEngine
    ELSE IF m = "conc" THEN OptsConc
    ELSE OptsEnv

\* process.env when the program starts
InitEnvs(m) ==
    IF m = "env"
    THEN {EmptyEnv,
          (K_REGION :> <<"ap-south-1">>) @@ (K_NAME :> <<"mine">>)
              @@ (K_CUSTOM :> <<"pre">>),
          (K_REGION :> << >>) @@ (K_VERSION :> << >>)}
    ELSE {EmptyEnv}

\* what a handler may do: its completion calls, what it returns or throws,
\* how a promise it returned settles
Signals(m) ==
    IF m = "engine"
    THEN {[op |-> "done", err |-> "null", val |-> "V"],
          [op |-> "succeed", err |-> "null", val |-> "0"],
          [op |-> "fail", err |-> "E", val |-> "undefined"],
          [op |-> "fail", err |-> "", val |-> "undefined"]}
    ELSE IF m = "watch"
    THEN {[op |-> "done", err |-> "null", val |-> "V"],
          [op |-> "fail", err |-> "E", val |-> "undefined"]}
    ELSE {[op |-> "done", err |-> "null", val |-> "V"]}

Returns(m) ==
    IF m = "engine" THEN {"undefined", "0", "true", "promise"}
    ELSE {"undefined"}

Throws(m) == IF m = "engine" THEN {"E", ""} ELSE {}

Settlements(m) ==
    {[ok |-> TRUE, v |-> "V"], [ok |-> TRUE, v |-> "0"],
     [ok |-> FALSE, v |-> "E"], [ok |-> FALSE, v |-> "undefined"]}

\* the completion calls a handler run may make: the handlers of the "env"
\* part call once at most
CallsAllowed(m) == IF m \in {"env", "conc"} THEN 1 ELSE MaxCalls

\* the slots a run uses
Slots(m) == IF m \in {"watch", "conc"} THEN Inv ELSE {1}

(***************************************************************************)
(* Initial state                                                           *)
(***************************************************************************)
InitIn(m) ==
    /\ mode = m
    /\ env \in InitEnvs(m)
    /\ cur = 0
    /\ inv = [i \in Inv |-> NewInv]
    /\ crashed = FALSE
    /\ runs = 0
    /\ mods = NoMods

\* nothing is running and no exception has ended the process
Idle == cur = 0 /\ ~crashed

\* a request's callback can continue after await execute(...)
Reaction(r) == r.awaiting /\ r.promise \in {"resolved", "rejected"}

\* timers and input events wait for promise reactions
NoReaction == \A j \in Inv : ~Reaction(inv[j])

\* the invocation in slot i is over: a later call may reuse the slot
Over(r) == r.pc = "closed" \/ (r.pc \in {"async", "ended"} /\ r.state = "Completed")

Apply(i, s) == inv' = [inv EXCEPT ![i] = s.r] /\ env' = s.e

(***************************************************************************)
(* execute and _executeSync                                                *)
(***************************************************************************)
\* slot i is free for a call: unused, or, in a run of calls one after the
\* other, its invocation is over
CanStart(i) ==
    IF inv[i].pc = "new" THEN TRUE
    ELSE mode = "env" /\ Over(inv[i]) /\ runs < MaxRuns

\* the caller calls execute(opts): the future is created when no callback
\* is given, then _executeSync starts
Execute(i) ==
    /\ Idle /\ NoReaction
    /\ mode \in {"engine", "env", "conc"}
    /\ i \in Slots(mode)
    /\ CanStart(i)
    /\ \E o \in OptsOf(mode) :
          inv' = [inv EXCEPT ![i] =
                    [NewInv EXCEPT !.pc = "validate", !.o = o,
                                   !.envBefore = env,
                                   !.promise = IF o.callback THEN "none"
                                               ELSE "pending"]]
    /\ cur' = i
    /\ runs' = runs + 1
    /\ UNCHANGED <<mode, mods, env, crashed>>

\* an exception leaves _executeSync: it leaves execute too, or, inside the
\* executor of the future, rejects the future
Escape(r, err) ==
    IF r.o.callback
    THEN [r EXCEPT !.thrown = err, !.pc = "closed"]
    ELSE [PromiseReject(r, err) EXCEPT !.pc = "closed"]

\* lines 129-144: the client context and the handler locator are checked
Validate(i) ==
    /\ cur = i /\ inv[i].pc = "validate"
    /\ LET err == ValidationError(inv[i].o)
       IN  IF err # "none"
           THEN /\ inv' = [inv EXCEPT ![i] = Escape(@, err)]
                /\ cur' = 0
           ELSE /\ inv' = [inv EXCEPT ![i] = Advance(@)]
                /\ cur' = i
    /\ UNCHANGED <<mode, mods, env, crashed, runs>>

\* lines 155-179: updateEnv(envVars)
Defaults(i) ==
    /\ cur = i /\ inv[i].pc = "defaults"
    /\ Apply(i, St(Advance(inv[i]), StageDefaults(env, inv[i].o)))
    /\ UNCHANGED <<mode, mods, cur, crashed, runs>>

\* lines 181-189: the custom environment
Custom(i) ==
    /\ cur = i /\ inv[i].pc = "custom"
    /\ Apply(i, St(Advance(inv[i]), StageCustom(env, inv[i].o)))
    /\ UNCHANGED <<mode, mods, cur, crashed, runs>>

\* lines 191-194: the environment file
Envfile(i) ==
    /\ cur = i /\ inv[i].pc = "envfile"
    /\ Apply(i, St(Advance(inv[i]), StageEnvfile(env, inv[i].o)))
    /\ UNCHANGED <<mode, mods, cur, crashed, runs>>

\* lines 196-208: the credentials
Credentials(i) ==
    /\ cur = i /\ inv[i].pc = "creds"
    /\ Apply(i, St(Advance(inv[i]), StageCredentials(env, inv[i].o)))
    /\ UNCHANGED <<mode, mods, cur, crashed, runs>>

\* lines 210-212: the region variables
Region(i) ==
    /\ cur = i /\ inv[i].pc = "region"
    /\ Apply(i, St(Advance(inv[i]), StageRegion(env, inv[i].o)))
    /\ UNCHANGED <<mode, mods, cur, crashed, runs>>

\* lines 219-239: the context is created, Pending, with its budget
NewContext(i) ==
    /\ cur = i /\ inv[i].pc = "context"
    /\ inv' = [inv EXCEPT ![i] =
                 [Advance(@) EXCEPT !.state = "Pending",
                                    !.timeoutMs = TimeoutOf(inv[i].o.timeoutMs)]]
    /\ UNCHANGED <<mode, mods, env, cur, crashed, runs>>

\* the synchronous part ends without the handler having run
EndedAt(s) == St([s.r EXCEPT !.steps = Append(@, s.r.pc), !.pc = "ended"], s.e)

\* lines 242-247: the handler module is loaded unless given in memory
Load(i) ==
    /\ cur = i /\ inv[i].pc = "load"
    /\ IF inv[i].o.lambdaFunc # "none"
       THEN Apply(i, St(Advance(inv[i]), env)) /\ cur' = i
            /\ UNCHANGED mods
       ELSE IF CanLoad(inv[i].o)
       THEN LET p == AbsLambdaPath(inv[i].o)
                m == Require(DeleteCache(mods, p), p)
            IN  /\ Apply(i, St([Advance(inv[i]) EXCEPT
                                  !.loaded = TRUE,
                                  !.mod = [file |-> mods.ver[p],
                                           ver |-> m.cache[p].ver,
                                           seen |-> -1]], env))
                /\ mods' = m
                /\ cur' = i
       ELSE Apply(i, EndedAt(RouteCatch(St(inv[i], env), "LoadError")))
            /\ cur' = 0 /\ UNCHANGED mods
    /\ UNCHANGED <<mode, crashed, runs>>

\* what the event producer returns
Produced(r) == IF r.src = "http" THEN r.req.ev ELSE "X"

\* lines 249-252: the event is resolved
Event(i) ==
    /\ cur = i /\ inv[i].pc = "event"
    /\ IF inv[i].o.event = "throwing"
       THEN Apply(i, EndedAt(RouteCatch(St(inv[i], env), "EventError")))
            /\ cur' = 0
       ELSE Apply(i, St([Advance(inv[i]) EXCEPT
                           !.event = IF inv[i].o.event = "producer"
                                     THEN Produced(inv[i]) ELSE "X"], env))
            /\ cur' = i
    /\ UNCHANGED <<mode, mods, crashed, runs>>

\* lines 254-255: the timeout is armed
StartTimeout(i) ==
    /\ cur = i /\ inv[i].pc = "timer"
    /\ inv' = [inv EXCEPT ![i] = ContextInitTimeout(Advance(@))]
    /\ UNCHANGED <<mode, mods, env, cur, crashed, runs>>

\* line 258: lambdaFunc[lambdaHandler] is called; calling a missing export
\* throws
Call(i) ==
    /\ cur = i /\ inv[i].pc = "call"
    /\ IF HandlerName(inv[i].o) \in HandlerExports(inv[i].o)
       THEN IF inv[i].loaded
            THEN LET p == AbsLambdaPath(inv[i].o)
                 IN  /\ Apply(i, St([Advance(inv[i]) EXCEPT
                                       !.mod.seen = mods.cache[p].uses], env))
                     /\ mods' = UseModule(mods, p)
                     /\ cur' = i
            ELSE Apply(i, St(Advance(inv[i]), env)) /\ cur' = i
                 /\ UNCHANGED mods
       ELSE Apply(i, EndedAt(RouteCatch(St(inv[i], env), "TypeError")))
            /\ cur' = 0 /\ UNCHANGED mods
    /\ UNCHANGED <<mode, crashed, runs>>

(***************************************************************************)
(* The handler                                                             *)
(***************************************************************************)
\* the handler, while it runs, calls the completion function
HandlerCalls(i) ==
    /\ cur = i /\ inv[i].pc = "inHandler"
    /\ inv[i].hn < CallsAllowed(mode)
    /\ \E sig \in Signals(mode) : Apply(i, HandlerSignal(St(inv[i], env), sig))
    /\ UNCHANGED <<mode, mods, cur, crashed, runs>>

\* the handler returns: lines 259-265
HandlerReturns(i) ==
    /\ cur = i /\ inv[i].pc = "inHandler"
    /\ \E result \in Returns(mode) :
          Apply(i, RouteResult(St([inv[i] EXCEPT !.ret = result,
                                                 !.pc = "async"], env),
                               result))
    /\ cur' = 0
    /\ UNCHANGED <<mode, mods, crashed, runs>>

\* the handler throws: lines 266-268
HandlerThrows(i) ==
    /\ cur = i /\ inv[i].pc = "inHandler"
    /\ \E err \in Throws(mode) :
          Apply(i, RouteCatch(St([inv[i] EXCEPT !.ret = "threw",
                                                !.pc = "async"], env),
                              err))
    /\ cur' = 0
    /\ UNCHANGED <<mode, mods, crashed, runs>>

\* work the handler left behind calls the completion function later
LaterCall(i) ==
    /\ Idle /\ NoReaction
    /\ inv[i].pc = "async"
    /\ inv[i].hn < CallsAllowed(mode)
    /\ \E sig \in Signals(mode) : Apply(i, HandlerSignal(St(inv[i], env), sig))
    /\ UNCHANGED <<mode, mods, cur, crashed, runs>>

\* the promise the handler returned settles
PromiseSettles(i) ==
    /\ Idle /\ NoReaction
    /\ inv[i].pc = "async"
    /\ inv[i].attached /\ ~inv[i].settled
    /\ \E p \in Settlements(mode) :
          Apply(i, RouteSettle(St([inv[i] EXCEPT !.settled = TRUE], env), p))
    /\ UNCHANGED <<mode, mods, cur, crashed, runs>>

\* the timer armed by _init_timeout fires
TimerFires(i) ==
    /\ Idle /\ NoReaction
    /\ inv[i].timer = "armed"
    /\ Apply(i, ContextTimeout(St(inv[i], env)))
    /\ UNCHANGED <<mode, mods, cur, crashed, runs>>

(***************************************************************************)
(* watch: the HTTP front end                                               *)
(***************************************************************************)
JsonType == "application/json"

\* req.headers['content-type']: the JSON type, another type, the JSON type
\* with a parameter
ContentTypes == {JsonType, "text/plain", "application/json; charset=utf-8"}

Bodies == {"not json", "{}", "{event:0}", "{event:X}"}

\* PayloadEvent with a falsy event taken as no event
PayloadEventDropFalsy(body) == IF body = "{event:X}" THEN "X" ELSE "undefined"

\* JSON.parse(body).event for a body that parses
PayloadEvent(body) ==
    IF body = "{event:0}" THEN "0"
    ELSE IF body = "{event:X}" THEN "X"
    ELSE "undefined"

\* JSON.stringify({tag: v}) : a property whose value is undefined is left out
Stringify(tag, v) ==
    IF v = "undefined" THEN [tag |-> "{}", v |-> "undefined"]
    ELSE [tag |-> tag, v |-> v]

\* res.end(body)
EndResponse(res, body) ==
    [res EXCEPT !.ends = @ + 1,
                !.sent = IF res.ends = 0 THEN body ELSE @,
                !.code = IF res.ends = 0 THEN res.status ELSE @]

\* handle_error leaving the status code as it is
handle_errorNoStatus(res, error) ==
    EndResponse(res, Stringify("error", error))

\* handle_error: status 500 and the error as the body
handle_error(res, error) ==
    EndResponse([res EXCEPT !.status = 500], Stringify("error", error))

HeaderError == "Invalid header Content-Type (Expected application/json)"

BodyError == "Invalid body (Expected \"event\" property)"

\* lines 58-66, 78-80: a request arrives; the header is checked and the
\* body listeners are registered.  The body of a request that fails the
\* header check is never read: the model leaves it out.
Request(i) ==
    /\ Idle /\ NoReaction
    /\ mode = "watch"
    /\ inv[i].pc = "new"
    /\ \E ct \in ContentTypes, body \in Bodies :
          LET r == [NewInv EXCEPT !.src = "http",
                                  !.req = [ct |-> ct,
                                           body |-> IF ct = JsonType
                                                    THEN body ELSE "none",
                                           ev |-> "undefined"]]
          IN  inv' = [inv EXCEPT ![i] =
                        IF ct # JsonType
                        THEN [r EXCEPT !.pc = "closed",
                                       !.res = handle_error(@, HeaderError)]
                        ELSE [r EXCEPT !.pc = "reading"]]
    /\ UNCHANGED <<mode, mods, env, cur, crashed, runs>>

\* lines 92-98 and 67-70: the body has arrived.  JSON.parse throws out of
\* the listener on a body that does not parse.  Otherwise the callback is
\* called with the error when payload.event is falsy, and then, in every
\* case, called with the event, which calls execute.
RequestEnd(i) ==
    /\ Idle /\ NoReaction
    /\ inv[i].pc = "reading"
    /\ IF inv[i].req.body = "not json"
       THEN /\ crashed' = TRUE
            /\ UNCHANGED <<inv, cur, runs>>
       ELSE LET ev == PayloadEvent(inv[i].req.body)
                r1 == IF ~Truthy(ev)
                      THEN [inv[i] EXCEPT !.res = handle_error(@, BodyError)]
                      ELSE inv[i]
            IN  /\ inv' = [inv EXCEPT ![i] =
                             [r1 EXCEPT !.req.ev = ev, !.o = WatchOpts,
                                        !.envBefore = env,
                                        !.promise = "pending",
                                        !.awaiting = TRUE,
                                        !.pc = "validate"]]
                /\ cur' = i
                /\ runs' = runs + 1
                /\ UNCHANGED crashed
    /\ UNCHANGED <<mode, mods, env>>

\* lines 70-76: the callback continues after await execute(...)
Respond(i) ==
    /\ Idle
    /\ Reaction(inv[i])
    /\ inv' = [inv EXCEPT ![i] =
                 [@ EXCEPT !.awaiting = FALSE,
                           !.res = IF inv[i].promise = "resolved"
                                   THEN EndResponse(@, Stringify("data", inv[i].pval))
                                   ELSE handle_error(@, inv[i].pval)]]
    /\ UNCHANGED <<mode, mods, env, cur, crashed, runs>>

(***************************************************************************)
(* Specifications                                                          *)
(***************************************************************************)
\* the steps of _executeSync up to the call of the handler
Sync(i) ==
    \/ Validate(i) \/ Defaults(i) \/ Custom(i) \/ Envfile(i)
    \/ Credentials(i) \/ Region(i) \/ NewContext(i) \/ Load(i)
    \/ Event(i) \/ StartTimeout(i) \/ Call(i)

\* one call of execute with any options and any handler
Next ==
    \E i \in Inv :
        \/ Execute(i) \/ Sync(i)
        \/ HandlerCalls(i) \/ HandlerReturns(i) \/ HandlerThrows(i)
        \/ LaterCall(i) \/ PromiseSettles(i) \/ TimerFires(i)

Spec == InitIn("engine") /\ [][Next]_vars

\* Fairness for the one call: a handler that was called returns or throws
\* (until it does, no timer can fire), and an armed timer fires once the
\* event loop is idle.
LiveSpec ==
    /\ Spec
    /\ \A i \in Inv :
          /\ WF_vars(HandlerReturns(i) \/ HandlerThrows(i))
          /\ WF_vars(TimerFires(i))

\* calls of execute one after the other, sharing process.env
NextEnv ==
    \E i \in Inv :
        \/ Execute(i) \/ Sync(i)
        \/ HandlerCalls(i) \/ HandlerReturns(i)
        \/ LaterCall(i) \/ TimerFires(i)

SpecEnv == InitIn("env") /\ [][NextEnv]_vars

\* the handler file at p is edited between two turns of the event loop
EditFile(p) ==
    /\ Idle /\ NoReaction
    /\ mods.ver[p] < MaxEdits
    /\ mods' = [mods EXCEPT !.ver[p] = @ + 1]
    /\ UNCHANGED <<mode, env, cur, inv, crashed, runs>>

\* calls of execute in flight together, on a handler file that is edited
NextConc ==
    \/ \E i \in Inv :
          \/ Execute(i) \/ Sync(i)
          \/ HandlerCalls(i) \/ HandlerReturns(i)
          \/ LaterCall(i) \/ TimerFires(i)
    \/ EditFile(PathFoo)

SpecConc == InitIn("conc") /\ [][NextConc]_vars

\* requests to the watch-mode server
NextWatch ==
    \E i \in Inv :
        \/ Request(i) \/ RequestEnd(i) \/ Respond(i) \/ Sync(i)
        \/ HandlerCalls(i) \/ HandlerReturns(i)
        \/ LaterCall(i) \/ TimerFires(i)

SpecWatch == InitIn("watch") /\ [][NextWatch]_vars

(***************************************************************************)
(* Properties                                                              *)
(***************************************************************************)
\* the options pass the checks of lines 129-144 and execute was called
Valid(r) == r.pc # "new" /\ ValidationError(r.o) = "none"

FutureStyle(r) == ~r.o.callback

\* the caller's callback was called once, with (err, val), and with
\* nothing else; for a future-style call: the future settled from that call
DeliveredOnce(r, err, val) ==
    /\ r.cbLog = <<[err |-> err, val |-> val]>>
    /\ FutureStyle(r) =>
          /\ r.promise \in {"resolved", "rejected"}
          /\ r.promise = "rejected" => r.pval = err
          /\ r.promise = "resolved" => r.pval = val

\* C1: for an invocation that passed validation, whatever completion
\* signals occur and in whatever order, the outcome is delivered at most
\* once and is that of the first signal: before any signal nothing is
\* delivered and the context is not completed; from the first signal on
\* the context is Completed with that signal's outcome, the callback has
\* been called exactly once with it, the future is settled from it, and
\* no exception has left execute.
C1_FirstSignalOnce ==
    \A i \in Inv :
        LET r == inv[i]
        IN  Valid(r) =>
              /\ r.thrown = "none"
              /\ Len(r.cbLog) <= 1
              /\ r.nsig = 0 =>
                    /\ r.cbLog = << >>
                    /\ r.state \in {"None", "Pending"}
                    /\ r.promise \in {"none", "pending"}
              /\ r.nsig > 0 =>
                    /\ r.state = "Completed"
                    /\ r.out = [err |-> r.first.err, val |-> r.first.val]
                    /\ DeliveredOnce(r, r.first.err, r.first.val)

\* three or more signals, of which the handler's call came first
C1_Witness ==
    \E i \in Inv :
        /\ Valid(inv[i])
        /\ inv[i].nsig >= 3
        /\ inv[i].first.by = "handler"
        /\ inv[i].timer = "cleared"
        /\ Len(inv[i].cbLog) = 1

\* C2: finalCallback runs exactly once per invocation that reaches the
\* handler-execution stage, at the first transition out of Pending,
\* whatever causes it: it has not run while the context is Pending, it
\* has run once when the context is Completed, and never more than once.
C2_FinalOnce ==
    \A i \in Inv :
        LET r == inv[i]
        IN  /\ r.finals <= 1
            /\ r.state \in {"None", "Pending"} => r.finals = 0
            /\ r.state = "Completed" => r.finals = 1
            /\ r.nsig > 0 => r.finals = 1

\* the timeout completed the invocation and a completion call came later
C2_Witness ==
    \E i \in Inv :
        /\ inv[i].first.by = "timer"
        /\ inv[i].nsig >= 2
        /\ inv[i].hn >= 1
        /\ inv[i].finals = 1

\* execute delivered the success value v
DeliveredValue(r, v) ==
    IF r.o.callback
    THEN r.cbLog = <<[err |-> "null", val |-> v]>>
    ELSE r.promise = "resolved" /\ r.pval = v

\* the handler has called the completion function exactly once, with a
\* success value
OneSuccessCall(r) ==
    /\ r.hn = 1
    /\ r.hfirst.by \in {"done", "succeed"}
    /\ r.hfirst.err = "null"

\* C3 as stated: a handler that calls the completion function exactly
\* once with a success value V has V delivered by execute, whatever the
\* handler returns and whenever the call is made.
C3_AsStated ==
    \A i \in Inv :
        OneSuccessCall(inv[i]) => DeliveredValue(inv[i], inv[i].hfirst.val)

\* C3: a handler's single completion call with a success value V has V
\* delivered by execute when that call is the first completion signal of
\* the invocation (no truthy plain return, promise settlement, caught
\* exception or timeout came before it).
C3_FirstCallDelivered ==
    \A i \in Inv :
        (OneSuccessCall(inv[i]) /\ inv[i].first.by = "handler")
            => DeliveredValue(inv[i], inv[i].hfirst.val)

\* a future-style call whose handler succeeded with a falsy value and then
\* returned a truthy one
C3_Witness ==
    \E i \in Inv :
        /\ OneSuccessCall(inv[i])
        /\ inv[i].first.by = "handler"
        /\ inv[i].hfirst.val = "0"
        /\ inv[i].ret = "true"
        /\ FutureStyle(inv[i])
        /\ inv[i].promise = "resolved"

\* C4: every invocation whose handler is called reaches Completed.  The
\* timer is armed, for the configured budget or 3000 ms when none is
\* configured, before the handler is called; a timer that fires before
\* any other completion signal completes the invocation as a failure with
\* the timeout error; and a called handler leads to a Completed context.
C4_TimeoutCompletes ==
    /\ [](\A i \in Inv :
            LET r == inv[i]
            IN  /\ r.pc = "inHandler" =>
                      /\ r.timer \in {"armed", "cleared"}
                      /\ r.timer = "armed" <=> r.state = "Pending"
                      /\ r.timeoutMs = IF r.o.timeoutMs = 0 THEN 3000
                                       ELSE r.o.timeoutMs
                /\ r.first.by = "timer" =>
                      /\ r.state = "Completed"
                      /\ r.kind = "failure"
                      /\ r.out.err = "TimeoutError"
                      /\ r.timer = "fired")
    /\ \A i \in Inv :
          (inv[i].pc = "inHandler") ~> (inv[i].state = "Completed")

\* a handler that returned without any completion signal, under the
\* default budget, failed by the timer
C4_Witness ==
    \E i \in Inv :
        /\ inv[i].first.by = "timer"
        /\ inv[i].nsig = 1
        /\ inv[i].ret = "undefined"
        /\ inv[i].timeoutMs = 3000
        /\ inv[i].kind = "failure"
        /\ inv[i].cbLog = <<[err |-> "TimeoutError", val |-> "undefined"]>>

\* the options name both a handler object and a handler path, or carry a
\* client context string that does not parse
Rejected(o) ==
    \/ o.lambdaFunc # "none" /\ o.lambdaPath # NoPath
    \/ IsString(o.clientContext) /\ ~Parses(o.clientContext)

\* as Rejected, for a client context string that is not empty
RejectedNonEmpty(o) ==
    \/ o.lambdaFunc # "none" /\ o.lambdaPath # NoPath
    \/ /\ IsString(o.clientContext) /\ ~Parses(o.clientContext)
       /\ o.clientContext # ""

\* execute failed with an error and did nothing else: the exception left
\* the call (callback style) or rejected the future (future style), the
\* environment is as it was, no step of _executeSync was taken, no
\* context, timer or module exists and the handler was not called
FailedFast(r) ==
    /\ IF r.o.callback THEN r.thrown # "none"
       ELSE r.promise = "rejected" /\ r.pval # "undefined"
    /\ env = r.envBefore
    /\ r.steps = << >>
    /\ r.state = "None"
    /\ r.timer = "none"
    /\ ~r.loaded
    /\ r.ret = "none" /\ r.hn = 0 /\ r.cbLog = << >>

\* C5 as stated: options with both a handler object and a path, or with a
\* client context string that does not parse, make execute raise an error
\* and perform no side effect.
C5_AsStated ==
    \A i \in Inv :
        (inv[i].pc \notin {"new", "validate"} /\ Rejected(inv[i].o))
            => FailedFast(inv[i])

\* C5: options with both a handler object and a path, or with a non-empty
\* client context string that does not parse, make execute fail with an
\* error (thrown from a callback-style call, the rejection of the future of
\* a future-style call) and perform no side effect: the environment is
\* unchanged, no module is loaded, the handler is not called, no timer is
\* armed and no context is created.
C5_FailFast ==
    \A i \in Inv :
        (inv[i].pc \notin {"new", "validate"} /\ RejectedNonEmpty(inv[i].o))
            => FailedFast(inv[i])

\* a callback-style call with a client context that does not parse, after
\* the exception
C5_Witness ==
    \E i \in Inv :
        /\ inv[i].pc = "closed"
        /\ inv[i].o.clientContext = "not json"
        /\ inv[i].o.callback
        /\ inv[i].thrown = "SyntaxError: clientContext"
        /\ env = inv[i].envBefore

\* C6 as stated: once validation has passed no error leaves execute as an
\* exception; a module that cannot be loaded, a missing export, an event
\* producer that throws and a handler that throws are caught and, being
\* the first completion signal, delivered as a failure: the invocation is
\* Completed as a failure, the callback was called once with the error as
\* its error argument, and the future of a future-style call is rejected
\* with it.
C6_CaughtAndDelivered ==
    \A i \in Inv :
        LET r == inv[i]
        IN  /\ Valid(r) => r.thrown = "none"
            /\ (Valid(r) /\ r.first.by = "catch") =>
                  /\ r.state = "Completed" /\ r.kind = "failure"
                  /\ r.finals = 1
                  /\ r.cbLog = <<[err |-> r.first.err, val |-> "undefined"]>>
                  /\ FutureStyle(r) =>
                        r.promise = "rejected" /\ r.pval = r.first.err

(***************************************************************************)
(* Order of the steps and the environment                                  *)
(***************************************************************************)
\* the place of step x in the log, 0 when it was not taken
IndexOf(steps, x) ==
    IF \E k \in 1..Len(steps) : steps[k] = x
    THEN CHOOSE k \in 1..Len(steps) : steps[k] = x
    ELSE 0

\* if y was taken, x was taken before it
Before(steps, x, y) ==
    IndexOf(steps, y) # 0 =>
        (IndexOf(steps, x) # 0 /\ IndexOf(steps, x) < IndexOf(steps, y))

StagingSteps == {"defaults", "custom", "envfile", "creds", "region"}

\* every variable the invocation stages is in process.env
Staged(r) ==
    /\ \A k \in DOMAIN envVars(r.o) : EnvGet(env, k) # << >>
    /\ \A k \in DOMAIN r.o.environment : EnvGet(env, k) = r.o.environment[k]
    /\ \A k \in DOMAIN r.o.envfile \cup DOMAIN r.o.profile : k \in DOMAIN env
    /\ \A k \in {K_REGION, K_DEFREGION} :
          /\ EnvGet(env, k) # << >>
          /\ r.o.region # << >> => EnvGet(env, k) = r.o.region

\* C7: within one invocation every staging step (defaults, custom
\* overrides, env file, credentials, region) is taken before the handler
\* module is loaded, the load before the event is resolved, the event
\* before the timeout is armed, the timeout before the handler is called;
\* no step is taken twice, so no staging step follows the start of the
\* load; and when the load starts, and while the synchronous part runs on
\* to the call of the handler, the staged variables are in process.env.
C7_StepOrder ==
    \A i \in Inv :
        LET r == inv[i]
        IN  /\ \A st \in StagingSteps : Before(r.steps, st, "load")
            /\ Before(r.steps, "load", "event")
            /\ Before(r.steps, "event", "timer")
            /\ Before(r.steps, "timer", "call")
            /\ \A a, b \in 1..Len(r.steps) : r.steps[a] = r.steps[b] => a = b
            /\ r.pc = "inHandler" => IndexOf(r.steps, "call") # 0
            /\ (cur = i /\ r.pc \in {"load", "event", "timer", "call"})
                  => Staged(r)

\* the handler of a call with a custom environment, an environment file, a
\* profile and a region is running
C7_Witness ==
    \E i \in Inv :
        /\ inv[i].pc = "inHandler"
        /\ Len(inv[i].steps) = 11
        /\ inv[i].o.environment # EmptyEnv
        /\ inv[i].o.envfile # EmptyEnv
        /\ inv[i].o.profile # EmptyEnv
        /\ inv[i].o.region # << >>
        /\ inv[i].o.lambdaPath # NoPath
        /\ inv[i].loaded

C9_HandlerIdCurrent ==
    \A i \in Inv :
        LET r == inv[i]
        IN  (cur = i /\ r.pc \in {"load", "call", "inHandler"}) =>
                EnvGet(env, K_HANDLER) =
                    (IF r.o.lambdaPath # NoPath
                     THEN Basename(AbsLambdaPath(r.o), Extname(AbsLambdaPath(r.o)))
                     ELSE <<"index">>)
                    \o <<".">> \o HandlerName(r.o)

\* C10 as stated: every request gets exactly one response, 200 with the
\* data when the invocation succeeds, 500 with the error otherwise; the
\* response is never ended twice and no request is left without one.
C10_OneResponse ==
    \A i \in Inv :
        LET r == inv[i]
        IN  r.src = "http" =>
              /\ r.res.ends <= 1
              /\ crashed => r.res.ends = 1
              /\ r.res.ends = 1 =>
                    \/ r.res.code = 200 /\ r.res.sent.tag = "data"
                          /\ r.kind = "success"
                    \/ r.res.code = 500 /\ r.res.sent.tag = "error"
              /\ (r.state = "Completed" /\ ~r.awaiting /\ cur = 0)
                    => r.res.ends = 1

(***************************************************************************)
(* The HTTP front end: bad requests                                        *)
(***************************************************************************)
\* C11 as stated: a request with the JSON content type whose body is not
\* valid JSON is answered with a 500 {error} response, no exception leaves
\* the handling of the request (the process is not ended), and the
\* listener goes on serving.
C11_BadJsonAnswered ==
    /\ ~crashed
    /\ \A i \in Inv :
          LET r == inv[i]
          IN  (r.src = "http" /\ r.req.ct = JsonType
               /\ r.req.body = "not json" /\ r.pc # "reading")
                  => /\ r.res.ends = 1
                     /\ r.res.code = 500
                     /\ r.res.sent.tag = "error"

\* the request was answered by the header check alone: one 500 response
\* with the Content-Type message, the body not read, no call of execute
HeaderRejected(r) ==
    /\ r.pc = "closed"
    /\ r.res.ends = 1
    /\ r.res.code = 500
    /\ r.res.sent = [tag |-> "error", v |-> HeaderError]
    /\ r.req.ev = "undefined"
    /\ r.o = NoOpts /\ r.promise = "none" /\ ~r.awaiting
    /\ r.steps = << >> /\ r.state = "None" /\ r.timer = "none"
    /\ r.ret = "none" /\ r.hn = 0

\* C12: a request whose content-type header is not exactly
\* application/json gets a 500 response whose error message names the
\* Content-Type requirement; its body is not read and no invocation is
\* started for it; and the number of calls of execute is the number of
\* requests whose body was read and parsed.
C12_HeaderRejected ==
    /\ \A i \in Inv :
          (inv[i].src = "http" /\ inv[i].req.ct # JsonType)
              => HeaderRejected(inv[i])
    /\ runs = Cardinality({i \in Inv : inv[i].src = "http"
                                        /\ inv[i].req.ct = JsonType
                                        /\ inv[i].pc # "reading"})

\* a request with the JSON type and a parameter was refused while another
\* request's invocation was pending
C12_Witness ==
    \E i, j \in Inv :
        /\ inv[i].src = "http"
        /\ inv[i].req.ct = "application/json; charset=utf-8"
        /\ inv[i].res.code = 500
        /\ inv[i].res.sent.v = HeaderError
        /\ inv[j].state = "Pending"

\* C13 as stated: a request with the JSON content type whose parsed body
\* has no top-level event field is rejected with the 'Invalid body' error and starts no invocation: no
\* step of _executeSync is taken for it, so the environment is not staged
\* and the handler is not called.
C13_NoEventNoInvocation ==
    \A i \in Inv :
        LET r == inv[i]
        IN  (r.src = "http" /\ r.req.ct = JsonType /\ r.req.body = "{}"
             /\ r.pc \notin {"new", "reading"})
                => /\ r.res.sent = [tag |-> "error", v |-> BodyError]
                   /\ r.steps = << >>
                   /\ r.state = "None"
                   /\ r.ret = "none"

(***************************************************************************)
(* Callback style and future style                                         *)
(***************************************************************************)
\* C14 as stated: the two styles share the path through _executeSync, so a
\* completed invocation has one outcome, success with a value V or failure
\* with an error E, whatever the style.  A callback-style call has the
\* callback called once with that outcome; a future-style call resolves
\* with V exactly when the outcome is success with V and rejects with E
\* exactly when it is failure with E, for every E a handler can fail with.
C14_StylesAgree ==
    \A i \in Inv :
        LET r == inv[i]
        IN  (Valid(r) /\ r.state = "Completed") =>
              /\ r.cbLog = <<r.out>>
              /\ FutureStyle(r) =>
                    IF r.kind = "failure"
                    THEN r.promise = "rejected" /\ r.pval = r.out.err
                    ELSE r.promise = "resolved" /\ r.pval = r.out.val

(***************************************************************************)
(* What the handler returns                                                *)
(***************************************************************************)
\* the handler returned a value that is not a future
PlainReturn(r) == r.ret \notin {"none", "threw", "promise"}

\* C17 as stated: a handler that returns a plain value, whatever it is
\* (undefined, null, false, 0 and the empty string included), and has not
\* called the completion function, has its invocation completed at once
\* as a success with no payload.
C17_AsStated ==
    \A i \in Inv :
        LET r == inv[i]
        IN  (PlainReturn(r) /\ r.hn = 0) =>
              /\ r.state = "Completed"
              /\ r.kind = "success"
              /\ r.out.val = "null"

\* C17: a handler that returns a truthy value that is not a future
\* completes the invocation at once; when no completion call came before,
\* it is a success with the payload null.  A falsy return value
\* (undefined, null, false, 0, the empty string) is no completion signal:
\* the invocation stays Pending until a completion call or the timeout.  A
\* returned future has ctx.succeed and ctx.fail attached: when its
\* settlement is the first signal, the invocation succeeds with the
\* fulfilment value or fails with the rejection.
C17_ReturnRouting ==
    \A i \in Inv :
        LET r == inv[i]
        IN  /\ (PlainReturn(r) /\ Truthy(r.ret)) =>
                  /\ r.state = "Completed"
                  /\ ~r.attached
                  /\ r.first.by \in {"handler", "return"}
                  /\ r.hn = 0 =>
                        /\ r.first.by = "return"
                        /\ r.kind = "success"
                        /\ DeliveredOnce(r, "null", "null")
            /\ (PlainReturn(r) /\ ~Truthy(r.ret)) =>
                  /\ r.first.by # "return"
                  /\ ~r.attached
                  /\ r.nsig = 0 => (r.state = "Pending" /\ r.cbLog = << >>)
            /\ r.ret = "promise" =>
                  /\ r.attached
                  /\ r.first.by # "return"
                  /\ ~r.settled => r.first.by \in {"none", "handler", "timer"}
                  /\ r.first.by = "promise" =>
                        /\ r.settled /\ r.state = "Completed"
                        /\ r.out = [err |-> r.first.err, val |-> r.first.val]
                        /\ r.kind = "success" <=> r.first.err = "null"

\* a future-style call whose handler returned a truthy plain value without
\* a completion call: resolved with null
C17_Witness ==
    \E i \in Inv :
        /\ inv[i].ret = "true"
        /\ inv[i].hn = 0
        /\ inv[i].first.by = "return"
        /\ inv[i].kind = "success"
        /\ FutureStyle(inv[i])
        /\ inv[i].promise = "resolved" /\ inv[i].pval = "null"

(***************************************************************************)
(* Teardown of the custom environment                                      *)
(***************************************************************************)
\* C18: when an invocation with a custom environment mapping and the
\* destroy flag set completes, by a completion call or by the timeout,
\* finalization removes every key of the mapping from process.env and
\* leaves every other variable as it was just before; when the flag is
\* unset or false, or there is no mapping, finalization changes no
\* variable and the custom keys have their staged values.
C18_Teardown ==
    [][\A i \in Inv :
          (inv'[i].finals = inv[i].finals + 1) =>
              LET o == inv[i].o
              IN  IF o.environment # EmptyEnv /\ o.envdestroy
                  THEN /\ DOMAIN env' = DOMAIN env \ DOMAIN o.environment
                       /\ \A k \in DOMAIN env' : env'[k] = env[k]
                  ELSE /\ env' = env
                       /\ \A k \in DOMAIN o.environment :
                             k \in DOMAIN env' /\ env'[k] = o.environment[k]]_vars

\* an invocation that replaced a variable set before the program started
\* was completed by the timeout, and the variable is gone
C18_Witness ==
    \E i \in Inv :
        /\ inv[i].finals = 1
        /\ inv[i].first.by = "timer"
        /\ inv[i].o.envdestroy
        /\ K_CUSTOM \in DOMAIN inv[i].o.environment
        /\ K_CUSTOM \in DOMAIN inv[i].envBefore
        /\ K_CUSTOM \notin DOMAIN env
        /\ K_NAME \in DOMAIN env

(***************************************************************************)
(* The HTTP front end: the event of a request                              *)
(***************************************************************************)
\* C20: a request with the JSON content type and a body with a top-level
\* event field, whose value may be falsy (0) or not, runs exactly one
\* invocation: execute is called once for it, with the options of watch
\* and a producer of the event, its handler is called once, and receives
\* the value of the field as its event.
C20_OneInvocationWithEvent ==
    /\ \A i \in Inv :
          LET r == inv[i]
              value == IF r.req.body = "{event:0}" THEN "0" ELSE "X"
          IN  (r.src = "http" /\ r.req.ct = JsonType
               /\ r.req.body \in {"{event:0}", "{event:X}"}
               /\ r.pc \notin {"new", "reading"})
                  => /\ r.pc \notin {"closed", "ended"}
                     /\ r.o = WatchOpts
                     /\ r.req.ev = value
                     /\ r.pc \in {"inHandler", "async"} =>
                           /\ r.event = value
                           /\ Len(SelectSeq(r.steps, LAMBDA x : x = "call")) = 1
    /\ runs = Cardinality({i \in Inv : inv[i].src = "http"
                                        /\ inv[i].pc \notin {"reading", "closed"}})

\* the handler of a request with the event 0 has run with 0 as its event
C20_Witness ==
    \E i \in Inv :
        /\ inv[i].src = "http"
        /\ inv[i].req.body = "{event:0}"
        /\ inv[i].pc = "async"
        /\ inv[i].event = "0"
        /\ inv[i].ret # "none"

(***************************************************************************)
(* Concurrent invocations                                                  *)
(***************************************************************************)
\* a step that changes the context of one invocation (its completion
\* state, outcome or timer) leaves every other invocation as it is, and a
\* context is completed by a completion signal of its own invocation
Isolated ==
    \A j \in Inv :
        (\/ inv'[j].state # inv[j].state
         \/ inv'[j].kind # inv[j].kind
         \/ inv'[j].out # inv[j].out
         \/ inv'[j].timer # inv[j].timer)
            => /\ \A k \in Inv \ {j} : inv'[k] = inv[k]
               /\ inv'[j].state = "Completed" =>
                     /\ inv[j].state = "Pending"
                     /\ inv'[j].nsig = inv[j].nsig + 1
                     /\ inv'[j].out = [err |-> inv'[j].first.err,
                                       val |-> inv'[j].first.val]

\* the response of a request whose body was read carries the outcome of
\* the request's invocation: 200 and the value, or 500 and the error
OwnOutcome(r) ==
    (r.src = "http" /\ r.req.ct = JsonType /\ r.res.ends >= 1) =>
        /\ r.state = "Completed"
        /\ IF r.kind = "success"
           THEN r.res.code = 200 /\ r.res.sent = Stringify("data", r.out.val)
           ELSE r.res.code = 500 /\ r.res.sent = Stringify("error", r.out.err)

\* C15 as stated: concurrent invocations each have their own context,
\* completion state and timer: a completion signal or timeout of one never
\* changes the completion state, result or timer of another, and each
\* request's response carries the outcome of its own invocation.
C15_PerInvocation ==
    /\ [][Isolated]_vars
    /\ [](\A i \in Inv : OwnOutcome(inv[i]))

(***************************************************************************)
(* The handler module                                                      *)
(***************************************************************************)
\* C16: every invocation given a handler path takes its handler from a
\* module instance loaded during that invocation: the instance has the
\* contents the file had when the invocation loaded it, so an edit made
\* between two invocations on the same path is seen by the second, and
\* the handler finds the module-level state of a new instance, never that
\* left by an earlier invocation.
C16_FreshModule ==
    \A i \in Inv :
        LET r == inv[i]
        IN  /\ r.loaded =>
                  /\ r.mod.file >= 0
                  /\ r.mod.ver = r.mod.file
            /\ (r.loaded /\ IndexOf(r.steps, "call") # 0) => r.mod.seen = 0
            /\ (r.o.lambdaPath # NoPath /\ r.pc \in {"inHandler", "async"})
                  => r.loaded

\* the file was edited after one invocation had called its handler, and
\* a second invocation on the same path runs the handler of the new file
C16_Witness ==
    \E i, j \in Inv :
        /\ i # j
        /\ inv[i].o.lambdaPath = inv[j].o.lambdaPath
        /\ inv[i].mod.ver = 0 /\ inv[i].mod.seen = 0
        /\ inv[j].mod.ver = 1 /\ inv[j].mod.seen = 0
        /\ inv[j].pc = "inHandler"

(***************************************************************************)
(* process.env under concurrent invocations                                *)
(***************************************************************************)
\* the invocation has staged the custom key and is still Pending
HoldsCustom(r) ==
    /\ r.state = "Pending"
    /\ IndexOf(r.steps, "custom") # 0
    /\ K_CUSTOM \in DOMAIN r.o.environment

\* C19: process.env is shared by the invocations in flight.  An invocation
\* that staged a custom key and is still Pending finds the key with its
\* own value, or with the value another invocation staged, or removed by
\* the teardown of another invocation that has completed; and the last
\* two do happen (C19_Witness is a reachable state).
C19_SharedEnvironment ==
    \A i \in Inv :
        HoldsCustom(inv[i]) =>
            \/ EnvGet(env, K_CUSTOM) = inv[i].o.environment[K_CUSTOM]
            \/ \E j \in Inv \ {i} :
                  /\ IndexOf(inv[j].steps, "custom") # 0
                  /\ K_CUSTOM \in DOMAIN inv[j].o.environment
                  /\ K_CUSTOM \in DOMAIN env
                  /\ env[K_CUSTOM] = inv[j].o.environment[K_CUSTOM]
            \/ /\ K_CUSTOM \notin DOMAIN env
               /\ \E j \in Inv \ {i} :
                     /\ K_CUSTOM \in DOMAIN inv[j].o.environment
                     /\ inv[j].o.envdestroy
                     /\ inv[j].finals = 1

\* an invocation that is still Pending had its custom key replaced by the
\* value of a second invocation, which then completed and removed the key
C19_Witness ==
    \E i, j \in Inv :
        /\ i # j
        /\ HoldsCustom(inv[i])
        /\ inv[i].pc = "async"
        /\ K_CUSTOM \in DOMAIN inv[j].o.environment
        /\ inv[j].o.environment[K_CUSTOM] # inv[i].o.environment[K_CUSTOM]
        /\ inv[j].o.envdestroy
        /\ inv[j].finals = 1
        /\ K_CUSTOM \notin DOMAIN env

====
